---- MODULE Spec2Model ----
(***************************************************************************)
(* Model of zola's image template functions                                *)
(* (components/templates/src/global_fns/images.rs):                        *)
(*   resize_image        ResizeImage::call                                 *)
(*   get_image_metadata  GetImageMetadata::call, image_dimensions          *)
(* together with the collaborators they call: the file search helper       *)
(* search_for_file and the image Processor behind the shared Mutex.        *)
(***************************************************************************)
EXTENDS Integers, Sequences, FiniteSets, TLC

VARIABLES fs, meta, pc, args, local, lock, cache, result, probe, calls

vars == <<fs, meta, pc, args, local, lock, cache, result, probe, calls>>

(***************************************************************************)
(* Bounds of the model.                                                    *)
(***************************************************************************)
\* Calls each worker makes in the concurrent specification.
MaxCalls == 2
Workers == {"w1", "w2"}
Caller == "w1"

(***************************************************************************)
(* Paths.  A path string is the sequence of its `/`-separated segments, so *)
(* "/content/x.jpg" is <<"", "content", "x.jpg">> and "@/x.jpg" is         *)
(* <<"@", "x.jpg">>.  Absolute file-system paths are written from the file *)
(* system root: <<"site", "content", "x.jpg">> is /site/content/x.jpg.     *)
(***************************************************************************)
BasePath == <<"site">>

ContentRoot == BasePath \o <<"content">>

StaticRoot == BasePath \o <<"static">>

\* Option values: <<>> is None, <<x>> is Some(x).
None == <<>>

Some(x) == <<x>>

IsSome(o) == Len(o) = 1

\* Path::exists on the file system fs.
Exists(files, p) == p \in files

(***************************************************************************)
(* search_for_file(base_path, path) -> Option<PathBuf>.                    *)
(***************************************************************************)
StartsWithSeparator(path) == Len(path) >= 1 /\ path[1] = ""

\* A search that tries the static root before the content root.
CandidatesStaticFirst(path) ==
    IF StartsWithSeparator(path) THEN <<>>
    ELSE IF Len(path) >= 2 /\ path[1] = "@" THEN <<ContentRoot \o Tail(path)>>
    ELSE IF Len(path) >= 2 /\ path[1] \in {"content", "static"}
         THEN <<BasePath \o path>>
    ELSE <<StaticRoot \o path, ContentRoot \o path, BasePath \o path>>

Candidates(path) ==
    IF StartsWithSeparator(path) THEN <<>>
    ELSE IF Len(path) >= 2 /\ path[1] = "@" THEN <<ContentRoot \o Tail(path)>>
    ELSE IF Len(path) >= 2 /\ path[1] \in {"content", "static"}
         THEN <<BasePath \o path>>
    ELSE <<ContentRoot \o path, StaticRoot \o path, BasePath \o path>>

RECURSIVE FirstExisting(_, _)
FirstExisting(files, cands) ==
    IF cands = <<>> THEN None
    ELSE IF Exists(files, Head(cands)) THEN Some(Head(cands))
    ELSE FirstExisting(files, Tail(cands))

search_for_file(files, path) == FirstExisting(files, Candidates(path))

(***************************************************************************)
(* Template values (tera::Value) and the argument bag.  A value is a       *)
(* record [t, n, s, p, b]: t is its JSON type and the content is n for a   *)
(* number, b for a boolean, p for a string that is a path (its segments)   *)
(* and s for any other string.                                             *)
(***************************************************************************)
Absent == [t |-> "absent", n |-> 0, s |-> "", p |-> <<>>, b |-> FALSE]

Str(s) == [Absent EXCEPT !.t = "str", !.s = s]

PathStr(p) == [Absent EXCEPT !.t = "str", !.p = p]

Num(n) == [Absent EXCEPT !.t = "num", !.n = n]

Bool(b) == [Absent EXCEPT !.t = "bool", !.b = b]

\* Results of a call: Ok(val) or Err(err).  A val is [k, dims, static_path,
\* url]: k = "null"; k = "dims" with dims = <<height, width>>; k = "resp" with
\* the static_path and the url.
NoVal == [k |-> "none", dims |-> <<>>, static_path |-> <<>>, url |-> <<>>]

Null == [NoVal EXCEPT !.k = "null"]

Dims(height, width) == [NoVal EXCEPT !.k = "dims", !.dims = <<height, width>>]

Resp(static_path, url) ==
    [NoVal EXCEPT !.k = "resp", !.static_path = static_path, !.url = url]

Ok(val) == [ok |-> TRUE, err |-> "", val |-> val]

Err(e) == [ok |-> FALSE, err |-> e, val |-> NoVal]

NoResult == [ok |-> FALSE, err |-> "pending", val |-> NoVal]

\* Largest u8, the type `quality` is read as.  (`width` and `height` are read
\* as u32; every integer of the model is below 2^31, so only their sign can
\* keep them out of u32.)
U8Max == 255

QualityMin == 1

QualityMax == 100

\* from_value::<T>(v) succeeds.
IsString(a) == a.t = "str"

IsBool(a) == a.t = "bool"

IsU8(a) == a.t = "num" /\ a.n >= 0 /\ a.n <= U8Max

IsU32(a) == a.t = "num" /\ a.n >= 0

\* optional_arg!(T, args.get(key), msg): None when the key is absent,
\* Some(value) when it converts to T; the caller returns Err(msg) otherwise.
OptionalNum(a) == IF a.t = "absent" THEN None ELSE Some(a.n)

OptionalString(a) == IF a.t = "absent" THEN None ELSE Some(a.s)

OptionalBool(a) == IF a.t = "absent" THEN None ELSE Some(a.b)

DEFAULT_OP == "fill"

DEFAULT_FMT == "auto"

unwrap_or(o, d) == IF IsSome(o) THEN o[1] ELSE d

(***************************************************************************)
(* The Processor collaborator (imageproc): ImageOp::from_args builds the   *)
(* operation or fails, Processor::insert records it in the cache and       *)
(* returns (static_path, url).                                             *)
(***************************************************************************)
BaseUrl == "http://a-website.com"

OpNeeds ==
    [scale |-> {"width", "height"}, fit_width |-> {"width"},
     fit_height |-> {"height"}, fit |-> {"width", "height"},
     fill |-> {"width", "height"}]

Formats == {"auto", "jpeg", "jpg", "png", "webp"}

from_args_ok(op, width, height, format) ==
    /\ op \in DOMAIN OpNeeds
    /\ format \in Formats
    /\ ("width" \in OpNeeds[op] => IsSome(width))
    /\ ("height" \in OpNeeds[op] => IsSome(height))

RECURSIVE PathCode(_)
PathCode(p) == IF p = <<>> THEN 0 ELSE (Len(Head(p)) + 1 + 31 * PathCode(Tail(p))) % 65536

OptCode(o) == IF IsSome(o) THEN o[1] + 1 ELSE 0

\* "hashing is stable based on filename and params"
HashOp(path, op, width, height, format, quality) ==
    (PathCode(path) + 7 * Len(op) + 11 * OptCode(width) + 13 * OptCode(height)
       + 17 * Len(format) + 19 * OptCode(quality)) % 65536

ImageOpOf(path, file_path, op, width, height, format, quality) ==
    [path |-> path, file_path |-> file_path, op |-> op, width |-> width,
     height |-> height, format |-> format, quality |-> quality,
     hash |-> HashOp(path, op, width, height, format, quality)]

NoImageOp == ImageOpOf(<<>>, <<>>, "", None, None, "", None)

\* Processor::insert: the cache after the insert, and the pair returned.
InsertCache(c, imageop) == c \cup {imageop.hash}

InsertOutput(imageop) ==
    Resp(<<"static", "processed_images", imageop.hash>>,
         <<BaseUrl, "processed_images", imageop.hash>>)

(***************************************************************************)
(* image_dimensions(path) -> Result<(u32, u32)>.  A file's content is      *)
(* [ok, h, w, vb]: whether it parses/decodes, its height and width and,    *)
(* for an SVG, its viewBox.  SVG lengths are f64; the model counts them in *)
(* halves, so 5 stands for 2.5.                                            *)
(***************************************************************************)
Extension(p) ==
    IF p = <<>> THEN ""
    ELSE IF p[Len(p)] \in {"i.svg"} THEN "svg"
    ELSE IF p[Len(p)] \in {"gutenberg.jpg", "asset.jpg", "o.jpg", "missing.jpg"} THEN "jpg"
    ELSE ""

\* `x as u32` on an f64: truncates toward zero, and a negative value becomes 0.
AsU32(halves) == IF halves <= 0 THEN 0 ELSE halves \div 2

\* Dimensions that prefer the viewBox to the explicit attributes.
SvgDimensionsViewBoxFirst(img) ==
    IF IsSome(img.vb)
    THEN Ok(Dims(AsU32(img.vb[1].height), AsU32(img.vb[1].width)))
    ELSE IF IsSome(img.h) /\ IsSome(img.w)
    THEN Ok(Dims(AsU32(img.h[1]), AsU32(img.w[1])))
    ELSE Err("svg_invalid_dimensions")

SvgDimensions(img) ==
    IF IsSome(img.h) /\ IsSome(img.w)
    THEN Ok(Dims(AsU32(img.h[1]), AsU32(img.w[1])))
    ELSE IF IsSome(img.vb)
    THEN Ok(Dims(AsU32(img.vb[1].height), AsU32(img.vb[1].width)))
    ELSE Err("svg_invalid_dimensions")

image_dimensions(content, path) ==
    LET img == content[path] IN
    IF Extension(path) = "svg"
    THEN IF ~img.ok THEN Err("svg_parse") ELSE SvgDimensions(img)
    ELSE IF ~img.ok THEN Err("image_open")
    ELSE Ok(Dims(img.h[1], img.w[1]))

(***************************************************************************)
(* ResizeImage::call, in the steps another worker can observe.             *)
(***************************************************************************)
IsPresent(a) == a.t # "absent"

\* Validation that forgets the range check on quality.
ValidationWithoutRange(a) ==
    IF ~IsString(a.path) THEN "path_required"
    ELSE IF IsPresent(a.width) /\ ~IsU32(a.width) THEN "width_type"
    ELSE IF IsPresent(a.height) /\ ~IsU32(a.height) THEN "height_type"
    ELSE IF IsPresent(a.op) /\ ~IsString(a.op) THEN "op_type"
    ELSE IF IsPresent(a.format) /\ ~IsString(a.format) THEN "format_type"
    ELSE IF IsPresent(a.quality) /\ ~IsU8(a.quality) THEN "quality_type"
    ELSE ""

\* Lines 39-67: the first failing check, or "" when the arguments pass.
ResizeValidationError(a) ==
    IF ~IsString(a.path) THEN "path_required"
    ELSE IF IsPresent(a.width) /\ ~IsU32(a.width) THEN "width_type"
    ELSE IF IsPresent(a.height) /\ ~IsU32(a.height) THEN "height_type"
    ELSE IF IsPresent(a.op) /\ ~IsString(a.op) THEN "op_type"
    ELSE IF IsPresent(a.format) /\ ~IsString(a.format) THEN "format_type"
    ELSE IF IsPresent(a.quality) /\ ~IsU8(a.quality) THEN "quality_type"
    ELSE IF IsPresent(a.quality)
            /\ (a.quality.n = 0 \/ a.quality.n > QualityMax) THEN "quality_range"
    ELSE ""

ArgOp(a) == unwrap_or(OptionalString(a.op), DEFAULT_OP)

ArgFormat(a) == unwrap_or(OptionalString(a.format), DEFAULT_FMT)

NoLocal == [file_path |-> None, imageop |-> NoImageOp, out |-> NoVal]

\* What a call has done so far: which function it is, whether it has
\* consulted the file system, taken the Processor lock, invoked
\* Processor::insert, and the Processor's cache when it started.
NoProbe == [fn |-> "none", fs |-> FALSE, lock |-> FALSE, insert |-> FALSE, cache0 |-> {}]

StartProbe(f, c) == [NoProbe EXCEPT !.fn = f, !.cache0 = c]

\* A lock that never blocks.
LockAvailableAlways(l) == TRUE

\* Mutex::lock returns once no other worker holds the guard.
LockAvailable(l) == l = "free"

\* A guard that outlives the call.
KeepGuard(l, w) == l

\* The MutexGuard is dropped when the call returns, on every path.
DropGuard(l, w) == "free"

\* Lines 82-86: the response built from (static_path, url).
ResizeResponse(out) == Ok(Resp(out.static_path, out.url))

\* Lines 72-74: the result when search_for_file returns None.
ResizeNotFound == Err("cannot_find_file")

CallResize(w, A) ==
    /\ pc[w] = "idle"
    /\ calls[w] < MaxCalls
    /\ \E a \in A :
         /\ args' = [args EXCEPT ![w] = a]
         /\ pc' = [pc EXCEPT ![w] = "resize:validate"]
    /\ probe' = [probe EXCEPT ![w] = StartProbe("resize_image", cache)]
    /\ UNCHANGED <<fs, meta, local, lock, cache, result, calls>>

ResizeValidate(w) ==
    /\ pc[w] = "resize:validate"
    /\ LET e == ResizeValidationError(args[w]) IN
         IF e # ""
         THEN /\ result' = [result EXCEPT ![w] = Err(e)]
              /\ pc' = [pc EXCEPT ![w] = "done"]
         ELSE /\ pc' = [pc EXCEPT ![w] = "resize:lock"]
              /\ UNCHANGED result
    /\ UNCHANGED <<fs, meta, args, local, lock, cache, probe, calls>>

ResizeLock(w) ==
    /\ pc[w] = "resize:lock"
    /\ LockAvailable(lock)
    /\ lock' = w
    /\ probe' = [probe EXCEPT ![w].lock = TRUE]
    /\ pc' = [pc EXCEPT ![w] = "resize:search"]
    /\ UNCHANGED <<fs, meta, args, local, cache, result, calls>>

ResizeSearch(w) ==
    /\ pc[w] = "resize:search"
    /\ probe' = [probe EXCEPT ![w].fs = TRUE]
    /\ LET f == search_for_file(fs, args[w].path.p) IN
         IF IsSome(f)
         THEN /\ local' = [local EXCEPT ![w].file_path = f]
              /\ pc' = [pc EXCEPT ![w] = "resize:from_args"]
              /\ UNCHANGED <<result, lock>>
         ELSE /\ result' = [result EXCEPT ![w] = ResizeNotFound]
              /\ lock' = DropGuard(lock, w)
              /\ pc' = [pc EXCEPT ![w] = "done"]
              /\ UNCHANGED local
    /\ UNCHANGED <<fs, meta, args, cache, calls>>

ResizeFromArgs(w) ==
    /\ pc[w] = "resize:from_args"
    /\ LET a == args[w]
           width == OptionalNum(a.width)
           height == OptionalNum(a.height)
           quality == OptionalNum(a.quality)
       IN IF from_args_ok(ArgOp(a), width, height, ArgFormat(a))
          THEN /\ local' = [local EXCEPT ![w].imageop =
                              ImageOpOf(a.path.p, local[w].file_path[1], ArgOp(a),
                                        width, height, ArgFormat(a), quality)]
               /\ pc' = [pc EXCEPT ![w] = "resize:insert"]
               /\ UNCHANGED <<result, lock>>
          ELSE /\ result' = [result EXCEPT ![w] = Err("from_args")]
               /\ lock' = DropGuard(lock, w)
               /\ pc' = [pc EXCEPT ![w] = "done"]
               /\ UNCHANGED local
    /\ UNCHANGED <<fs, meta, args, cache, probe, calls>>

ResizeInsert(w) ==
    /\ pc[w] = "resize:insert"
    /\ cache' = InsertCache(cache, local[w].imageop)
    /\ local' = [local EXCEPT ![w].out = InsertOutput(local[w].imageop)]
    /\ probe' = [probe EXCEPT ![w].insert = TRUE]
    /\ pc' = [pc EXCEPT ![w] = "resize:return"]
    /\ UNCHANGED <<fs, meta, args, lock, result, calls>>

ResizeReturn(w) ==
    /\ pc[w] = "resize:return"
    /\ result' = [result EXCEPT ![w] = ResizeResponse(local[w].out)]
    /\ lock' = DropGuard(lock, w)
    /\ pc' = [pc EXCEPT ![w] = "done"]
    /\ UNCHANGED <<fs, meta, args, local, cache, probe, calls>>

(***************************************************************************)
(* GetImageMetadata::call.                                                 *)
(***************************************************************************)
\* Lines 121-131.
MetaValidationError(a) ==
    IF ~IsString(a.path) THEN "path_required"
    ELSE IF IsPresent(a.allow_missing) /\ ~IsBool(a.allow_missing)
         THEN "allow_missing_type"
    ELSE ""

ArgAllowMissing(a) == unwrap_or(OptionalBool(a.allow_missing), FALSE)

\* A lookup that ignores allow_missing.
MetaNotFoundStrict(allow_missing) == Err("cannot_find_path")

\* Lines 134-140: the result when search_for_file returns None.
MetaNotFound(allow_missing) ==
    IF allow_missing THEN Ok(Null) ELSE Err("cannot_find_path")

CallMeta(w, A) ==
    /\ pc[w] = "idle"
    /\ calls[w] < MaxCalls
    /\ \E a \in A :
         /\ args' = [args EXCEPT ![w] = a]
         /\ pc' = [pc EXCEPT ![w] = "meta:validate"]
    /\ probe' = [probe EXCEPT ![w] = StartProbe("get_image_metadata", cache)]
    /\ UNCHANGED <<fs, meta, local, lock, cache, result, calls>>

MetaValidate(w) ==
    /\ pc[w] = "meta:validate"
    /\ LET e == MetaValidationError(args[w]) IN
         IF e # ""
         THEN /\ result' = [result EXCEPT ![w] = Err(e)]
              /\ pc' = [pc EXCEPT ![w] = "done"]
         ELSE /\ pc' = [pc EXCEPT ![w] = "meta:search"]
              /\ UNCHANGED result
    /\ UNCHANGED <<fs, meta, args, local, lock, cache, probe, calls>>

MetaSearch(w) ==
    /\ pc[w] = "meta:search"
    /\ probe' = [probe EXCEPT ![w].fs = TRUE]
    /\ LET f == search_for_file(fs, args[w].path.p) IN
         IF IsSome(f)
         THEN /\ local' = [local EXCEPT ![w].file_path = f]
              /\ pc' = [pc EXCEPT ![w] = "meta:dimensions"]
              /\ UNCHANGED result
         ELSE /\ result' = [result EXCEPT ![w] = MetaNotFound(ArgAllowMissing(args[w]))]
              /\ pc' = [pc EXCEPT ![w] = "done"]
              /\ UNCHANGED local
    /\ UNCHANGED <<fs, meta, args, lock, cache, calls>>

MetaDimensions(w) ==
    /\ pc[w] = "meta:dimensions"
    /\ result' = [result EXCEPT ![w] = image_dimensions(meta, local[w].file_path[1])]
    /\ pc' = [pc EXCEPT ![w] = "done"]
    /\ UNCHANGED <<fs, meta, args, local, lock, cache, probe, calls>>

(***************************************************************************)
(* The caller takes the result and is free to call again.                  *)
(***************************************************************************)
Finish(w) ==
    /\ pc[w] = "done"
    /\ calls' = [calls EXCEPT ![w] = @ + 1]
    /\ pc' = [pc EXCEPT ![w] = "idle"]
    /\ result' = [result EXCEPT ![w] = NoResult]
    /\ local' = [local EXCEPT ![w] = NoLocal]
    /\ probe' = [probe EXCEPT ![w] = NoProbe]
    /\ UNCHANGED <<fs, meta, args, lock, cache>>

(***************************************************************************)
(* The site on disk and the argument bags the callers draw from.           *)
(***************************************************************************)
ContentGutenberg == <<"site", "content", "gutenberg.jpg">>

StaticGutenberg == <<"site", "static", "gutenberg.jpg">>

BaseGutenberg == <<"site", "gutenberg.jpg">>

GalleryAsset == <<"site", "content", "gallery", "asset.jpg">>

\* A file beside the site directory, and an SVG under the static root.
OutsideO == <<"o.jpg">>

StaticSvg == <<"site", "static", "i.svg">>

AllFiles ==
    {ContentGutenberg, GalleryAsset, StaticGutenberg, BaseGutenberg, OutsideO, StaticSvg}

\* A 300x380 raster image, and an SVG with only viewBox="0 0 300 380".
Raster == [ok |-> TRUE, h |-> Some(380), w |-> Some(300), vb |-> None]

ViewBoxSvg ==
    [ok |-> TRUE, h |-> None, w |-> None,
     vb |-> Some([width |-> 600, height |-> 760])]

DefaultMeta == [f \in AllFiles |-> IF f = StaticSvg THEN ViewBoxSvg ELSE Raster]

\* The files create_dir_with_image creates.
TestFiles == {ContentGutenberg, GalleryAsset, StaticGutenberg}

\* Files of the sequential specifications that the tests' site does not hold.
ExtraFiles == {OutsideO, StaticSvg}

NoArgs ==
    [path |-> Absent, width |-> Absent, height |-> Absent, op |-> Absent,
     format |-> Absent, quality |-> Absent, allow_missing |-> Absent]

ImagePaths ==
    { <<"@", "gutenberg.jpg">>, <<"content", "gutenberg.jpg">>, <<"static", "gutenberg.jpg">>, <<"gutenberg.jpg">>,
      <<"gallery", "asset.jpg">>, <<"missing.jpg">>,
      <<"", "content", "gutenberg.jpg">>, <<"", "o.jpg">> }

SvgPaths == { <<"static", "i.svg">>, <<"i.svg">> }

PathArgs(paths) == {Absent, Num(7)} \cup {PathStr(p) : p \in paths}

SeqResizeArgs ==
    [path : PathArgs(ImagePaths),
     width : {Absent, Num(40), Num(-1)},
     height : {Absent, Num(40), Str("40")},
     op : {Absent, Str("fit_width"), Str("bogus"), Num(1)},
     format : {Absent, Str("png"), Bool(TRUE)},
     quality : {Absent, Num(0), Num(1), Num(100), Num(101), Num(256), Num(-1), Str("90")},
     allow_missing : {Absent}]

SeqMetaArgs ==
    [path : PathArgs(ImagePaths \cup SvgPaths),
     width : {Absent}, height : {Absent}, op : {Absent}, format : {Absent},
     quality : {Absent},
     allow_missing : {Absent, Bool(TRUE), Bool(FALSE), Str("true")}]

GoodResize(p) == [NoArgs EXCEPT !.path = PathStr(p), !.width = Num(40), !.height = Num(40)]

ConcResizeArgs ==
    { GoodResize(<<"static", "gutenberg.jpg">>),
      GoodResize(<<"gallery", "asset.jpg">>),
      GoodResize(<<"missing.jpg">>),
      [GoodResize(<<"static", "gutenberg.jpg">>) EXCEPT !.op = Str("bogus")],
      [GoodResize(<<"static", "gutenberg.jpg">>) EXCEPT !.quality = Num(0)] }

ConcMetaArgs ==
    { [NoArgs EXCEPT !.path = PathStr(<<"static", "gutenberg.jpg">>)],
      [NoArgs EXCEPT !.path = PathStr(<<"missing.jpg">>)],
      [NoArgs EXCEPT !.path = PathStr(<<"missing.jpg">>), !.allow_missing = Bool(TRUE)] }

SvgLengths == {-2, 5, 600, 760}

SvgContents ==
    [ok : BOOLEAN,
     h : {None} \cup {Some(x) : x \in SvgLengths},
     w : {None} \cup {Some(x) : x \in SvgLengths},
     vb : {None, Some([width |-> 600, height |-> 760]),
           Some([width |-> 5, height |-> -2]), Some([width |-> 9, height |-> 3])}]

DimMetaArgs ==
    [path : {PathStr(p) : p \in SvgPaths \cup {<<"static", "gutenberg.jpg">>, <<"missing.jpg">>}},
     width : {Absent}, height : {Absent}, op : {Absent}, format : {Absent},
     quality : {Absent},
     allow_missing : {Absent, Bool(TRUE)}]

(***************************************************************************)
(* Specifications.                                                         *)
(*   Spec     several workers call both functions concurrently on the one  *)
(*            shared Processor, each up to MaxCalls times.                 *)
(*   FairSpec Spec with every started call scheduled fairly.               *)
(*   SeqSpec  one call by one caller, over the whole argument space and    *)
(*            every placement of gutenberg.jpg under the content, static   *)
(*            and base directories.                                        *)
(*   DimSpec  one get_image_metadata call over the contents an SVG can     *)
(*            have.                                                        *)
(***************************************************************************)
Idle ==
    /\ pc = [w \in Workers |-> "idle"]
    /\ args = [w \in Workers |-> NoArgs]
    /\ local = [w \in Workers |-> NoLocal]
    /\ result = [w \in Workers |-> NoResult]
    /\ probe = [w \in Workers |-> NoProbe]
    /\ calls = [w \in Workers |-> 0]
    /\ lock = "free"
    /\ cache = {}

Init ==
    /\ fs = TestFiles
    /\ meta = DefaultMeta
    /\ Idle

SeqInit ==
    /\ fs \in {S \cup {GalleryAsset} \cup ExtraFiles :
                 S \in SUBSET {ContentGutenberg, StaticGutenberg, BaseGutenberg}}
    /\ meta = DefaultMeta
    /\ Idle

DimInit ==
    /\ fs = TestFiles \cup ExtraFiles
    /\ meta \in {[DefaultMeta EXCEPT ![StaticSvg] = c] : c \in SvgContents}
    /\ Idle

Step(w) ==
    \/ ResizeValidate(w)
    \/ ResizeLock(w)
    \/ ResizeSearch(w)
    \/ ResizeFromArgs(w)
    \/ ResizeInsert(w)
    \/ ResizeReturn(w)
    \/ MetaValidate(w)
    \/ MetaSearch(w)
    \/ MetaDimensions(w)

Next ==
    \E w \in Workers :
        \/ CallResize(w, ConcResizeArgs)
        \/ CallMeta(w, ConcMetaArgs)
        \/ Step(w)
        \/ Finish(w)

SeqNext ==
    \/ CallResize(Caller, SeqResizeArgs)
    \/ CallMeta(Caller, SeqMetaArgs)
    \/ Step(Caller)

DimNext ==
    \/ CallMeta(Caller, DimMetaArgs)
    \/ MetaValidate(Caller)
    \/ MetaSearch(Caller)
    \/ MetaDimensions(Caller)

Spec == Init /\ [][Next]_vars

\* A worker inside a call keeps running: a thread blocked on the Mutex is woken
\* when the guard is dropped, and nothing else in a call waits.
FairSpec == Spec /\ \A w \in Workers : WF_vars(Step(w))

SeqSpec == SeqInit /\ [][SeqNext]_vars

DimSpec == DimInit /\ [][DimNext]_vars

(***************************************************************************)
(* Properties.                                                             *)
(***************************************************************************)
Done(w) == pc[w] = "done"

IsResize(w) == probe[w].fn = "resize_image"

IsMeta(w) == probe[w].fn = "get_image_metadata"

\* From just before ImageOp::from_args to the end of Processor::insert.
InInsertSpan(w) == pc[w] \in {"resize:from_args", "resize:insert"}

HasPathString(a) == a.path.t = "str"

AbsolutePathArg(a) == HasPathString(a) /\ StartsWithSeparator(a.path.p)

BarePathArg(a) ==
    /\ HasPathString(a)
    /\ Len(a.path.p) >= 1
    /\ a.path.p[1] \notin {"", "@", "content", "static"}

AllowsMissing(a) == a.allow_missing.t = "bool" /\ a.allow_missing.b

\* C1: under any interleaving of resize_image calls on the shared Processor, at
\* most one call at a time is between building the request and finishing
\* Processor::insert, and the worker in that span holds the Processor lock.
C1_InsertsNeverOverlap ==
    /\ \A w \in Workers : InInsertSpan(w) => lock = w
    /\ \A w, v \in Workers : InInsertSpan(w) /\ InInsertSpan(v) => w = v

\* One worker is about to insert while another waits for the lock.
C1_Witness ==
    \E w, v \in Workers :
        /\ pc[w] = "resize:insert"
        /\ pc[v] = "resize:lock"

\* C2: a path that begins with a separator makes both functions
\* return an error, whatever the other arguments are, and is never resolved
\* nor handed to the Processor.
C2_AbsoluteAlwaysError ==
    \A w \in Workers :
        Done(w) /\ AbsolutePathArg(args[w]) =>
            /\ ~result[w].ok
            /\ local[w].file_path = None
            /\ ~probe[w].insert

\* C3: when path resolution finds no existing file, resize_image fails with the
\* file-not-found error; get_image_metadata fails with it too unless
\* allow_missing is true, when it returns null without error.
C3_NotFound ==
    \A w \in Workers :
        /\ Done(w) /\ IsResize(w) /\ ResizeValidationError(args[w]) = ""
           /\ search_for_file(fs, args[w].path.p) = None
           => result[w] = Err("cannot_find_file")
        /\ Done(w) /\ IsMeta(w) /\ MetaValidationError(args[w]) = ""
           /\ search_for_file(fs, args[w].path.p) = None
           => IF AllowsMissing(args[w]) THEN result[w] = Ok(Null)
              ELSE result[w] = Err("cannot_find_path")

\* get_image_metadata(path = "missing.jpg", allow_missing = true) has returned
\* null.
C3_Witness ==
    \E w \in Workers :
        /\ Done(w) /\ IsMeta(w)
        /\ args[w].path = PathStr(<<"missing.jpg">>)
        /\ AllowsMissing(args[w])
        /\ probe[w].fs
        /\ result[w] = Ok(Null)

\* C4: resize_image rejects every supplied unsigned quality outside 1..=100 with
\* the range error, and quality 1 and quality 100 (other arguments valid, file
\* present) succeed and reach the Processor unchanged.
C4_QualityRange ==
    \A w \in Workers :
        LET a == args[w] IN
        Done(w) /\ IsResize(w) /\ a.quality.t = "num"
          /\ ResizeValidationError([a EXCEPT !.quality = Absent]) = "" =>
            /\ a.quality.n >= 0 /\ (a.quality.n < QualityMin \/ a.quality.n > QualityMax)
               => result[w] = Err("quality_range")
            /\ a.quality.n \in {QualityMin, QualityMax}
               /\ IsSome(search_for_file(fs, a.path.p))
               /\ from_args_ok(ArgOp(a), OptionalNum(a.width), OptionalNum(a.height),
                               ArgFormat(a))
               => result[w].ok /\ local[w].imageop.quality = Some(a.quality.n)

\* C5: for an SVG that parses, the dimensions are (height, width) of the
\* explicit attributes when both are present (also when a viewBox is present),
\* otherwise (height, width) of the viewBox when there is one, otherwise the
\* invalid-dimensions error; each length is converted to u32.
C5_SvgDimensions ==
    \A w \in Workers :
        Done(w) /\ IsMeta(w) /\ IsSome(local[w].file_path)
          /\ Extension(local[w].file_path[1]) = "svg"
          /\ meta[local[w].file_path[1]].ok =>
            LET img == meta[local[w].file_path[1]] IN
            IF IsSome(img.h) /\ IsSome(img.w)
            THEN /\ result[w].ok
                 /\ result[w].val.k = "dims"
                 /\ result[w].val.dims = <<AsU32(img.h[1]), AsU32(img.w[1])>>
            ELSE IF IsSome(img.vb)
            THEN /\ result[w].ok
                 /\ result[w].val.k = "dims"
                 /\ result[w].val.dims =
                      <<AsU32(img.vb[1].height), AsU32(img.vb[1].width)>>
            ELSE result[w] = Err("svg_invalid_dimensions")

\* An SVG with height 380, width 300 and a viewBox of another size has been
\* measured as 380 by 300.
C5_Witness ==
    \E w \in Workers :
        /\ Done(w) /\ IsMeta(w)
        /\ meta[StaticSvg] = [ok |-> TRUE, h |-> Some(760), w |-> Some(600),
                              vb |-> Some([width |-> 9, height |-> 3])]
        /\ local[w].file_path = Some(StaticSvg)
        /\ result[w].ok
        /\ result[w].val.dims = <<380, 300>>

\* The file a bare relative path resolves to: the content root first, then the
\* static root, then the base directory.
BareExpected(files, p) ==
    IF Exists(files, ContentRoot \o p) THEN Some(ContentRoot \o p)
    ELSE IF Exists(files, StaticRoot \o p) THEN Some(StaticRoot \o p)
    ELSE IF Exists(files, BasePath \o p) THEN Some(BasePath \o p)
    ELSE None

\* C7: a bare relative path resolves to the first existing of content root,
\* static root, base directory: the content-root file when it exists under
\* both the content and the static root, the base-directory file only when
\* neither of the other two exists.
C7_BareSearchOrder ==
    \A w \in Workers :
        probe[w].fs /\ BarePathArg(args[w]) =>
            local[w].file_path = BareExpected(fs, args[w].path.p)

\* "gutenberg.jpg" exists under the content root, the static root and the base
\* directory, and the call has resolved it under the content root.
C7_Witness ==
    \E w \in Workers :
        /\ probe[w].fs
        /\ args[w].path = PathStr(<<"gutenberg.jpg">>)
        /\ {ContentGutenberg, StaticGutenberg, BaseGutenberg} \subseteq fs
        /\ local[w].file_path = Some(ContentGutenberg)

\* The arguments resize_image must reject before it resolves the path.
InvalidResizeArgs(a) ==
    \/ a.path.t # "str"
    \/ a.width.t \notin {"absent", "num"} \/ (a.width.t = "num" /\ a.width.n < 0)
    \/ a.height.t \notin {"absent", "num"} \/ (a.height.t = "num" /\ a.height.n < 0)
    \/ a.op.t \notin {"absent", "str"}
    \/ a.format.t \notin {"absent", "str"}
    \/ a.quality.t \notin {"absent", "num"}
    \/ (a.quality.t = "num" /\ (a.quality.n < QualityMin \/ a.quality.n > QualityMax))

\* C9: a resize_image call with a missing path, a wrong-typed argument or a
\* quality outside 1..=100 returns an error before path resolution: it has not
\* consulted the file system, not taken the Processor lock, not invoked
\* Processor::insert, and the Processor's cache is as it was.
C9_RejectedBeforeResolution ==
    \A w \in Workers :
        IsResize(w) /\ InvalidResizeArgs(args[w]) =>
            /\ pc[w] \in {"resize:validate", "done"}
            /\ Done(w) => ~result[w].ok
            /\ ~probe[w].fs
            /\ ~probe[w].lock
            /\ ~probe[w].insert
            /\ lock # w
            /\ cache = probe[w].cache0

\* resize_image has rejected quality = 101 for a file that exists, without
\* touching the file system or the lock.
C9_Witness ==
    \E w \in Workers :
        /\ Done(w) /\ IsResize(w)
        /\ args[w].quality = Num(101)
        /\ args[w].path = PathStr(<<"static", "gutenberg.jpg">>)
        /\ StaticGutenberg \in fs
        /\ result[w] = Err("quality_range")
        /\ ~probe[w].fs

\* C10: with fair scheduling every started call returns, with a result or an
\* error: a resize_image call that fails after taking the Processor lock
\* releases it, so a later call does not wait forever.
C10_EveryCallReturns ==
    \A w \in Workers : (pc[w] \notin {"idle", "done"}) ~> Done(w)

\* A call has failed after taking the lock and left it free, while another
\* call waits for it.
C10_Witness ==
    \E w, v \in Workers :
        /\ Done(w) /\ IsResize(w) /\ probe[w].lock /\ ~result[w].ok
        /\ lock = "free"
        /\ pc[v] = "resize:lock"

====
